---- MODULE Spec2Model ----
\* Model of main.go: a bearer-token gate (AuthMiddleware), a per-address token
\* bucket (RateLimitMiddleware), the invitation registry
\* (GenerateInvitationCodeHandler, RegisterHandler), LoginHandler and the
\* resend loop (ProcessResendCodes).  Every request is served by its own
\* goroutine; a database statement is one atomic step.
EXTENDS Integers, Sequences, FiniteSets, TLC

\* ---------------------------------------------------------------- bounds
NumProcs == 2          \* concurrently served requests
MaxRequests == 3       \* requests received in one behaviour
MaxCodes == 2          \* rows of invitation_codes
MaxMinutes == 6        \* horizon of the registry specifications, in minutes
MaxHours == 3          \* horizon of the gate specification, in hours
MaxRateUnits == 3      \* horizon of the rate-limiter specification, in clock units
Resolution == 2        \* clock units per second
IdleSeconds == 3       \* length of a pause between requests to the rate limiter, in seconds

\* ------------------------------------------------------- time and constants
Second == Resolution
Minute == 60 * Second
Hour == 60 * Minute
TokenValidity == 2 * Hour          \* time.Now().Add(2 * time.Hour)
GraceInterval == 2 * Minute        \* INTERVAL '2 minutes'
ValidityWindow == 2 * Minute       \* the 2-minute window of the expires_at column
SweepInterval == 2 * Hour          \* time.Sleep(2 * time.Hour)
BucketRate == 1                    \* ratelimit.NewBucketWithRate(1, _)
BucketCapacity == 1                \* ratelimit.NewBucketWithRate(_, 1)
TakeCount == 1                     \* limiter.TakeAvailable(1)

Procs == 1 .. NumProcs
Emails == {"a@x.com", "b@y.com"}
Passwords == {"pw1", "pw2"}
Addrs == {"1.2.3.4:1000", "5.6.7.8:2000"}
Null == -1                         \* SQL NULL of a timestamp column
jwtKey == "jwtKey"
otherKey == "otherKey"

\* time.Time.Unix(): whole seconds
Unix(t) == t \div Second

\* ------------------------------------------------------------ JWT library
\* A claim value inside a token is a JSON value; inside jwt.MapClaims it is a
\* Go value.  json decoding turns every JSON number into a float64.
\* The email claim carries a string, the time claims a number (or, in a
\* crafted token, a JSON string of digits).
Absent == [t |-> "absent", v |-> 0]
AbsentEmail == [t |-> "absent", v |-> ""]
GoInt64(n) == [t |-> "int64", v |-> n]
GoString(s) == [t |-> "string", v |-> s]
JSONDigits(n) == [t |-> "string", v |-> n]
ToJSON(val) == IF val.t \in {"int64", "float64"} THEN [t |-> "number", v |-> val.v] ELSE val
FromJSON(val) == IF val.t = "number" THEN [t |-> "float64", v |-> val.v] ELSE val

\* the HMAC of a signing string (algorithm and claims) under a key
Sign(alg, claims, key) == [alg |-> alg, claims |-> claims, key |-> key]

\* token.SignedString(key) of jwt.NewWithClaims(alg, claims)
SignedString(alg, claims, key) ==
    [kind |-> "jwt", alg |-> alg,
     claims |-> [n \in DOMAIN claims |-> ToJSON(claims[n])],
     sig |-> Sign(alg, [n \in DOMAIN claims |-> ToJSON(claims[n])], key)]

\* strings that are not a three-segment token
NoClaims == [email |-> AbsentEmail, expiry |-> Absent, exp |-> Absent]
EmptyString == [kind |-> "empty", alg |-> "", claims |-> NoClaims, sig |-> Sign("", NoClaims, "")]
Garbage == [kind |-> "garbage", alg |-> "", claims |-> NoClaims, sig |-> Sign("", NoClaims, "")]

\* GenerateJWTToken(username) called at time t
GenerateJWTToken(username, t) ==
    SignedString("HS256",
                 [email |-> GoString(username),
                  expiry |-> GoInt64(Unix(t + TokenValidity)),
                  exp |-> Absent],
                 jwtKey)

\* jwt.MapClaims.Valid() at time t: only the registered claim "exp" is looked at
MapClaimsValid(claims, t) ==
    IF claims.exp.t = "float64" /\ claims.exp.v # 0 THEN Unix(t) <= claims.exp.v ELSE TRUE

\* jwt.ParseWithClaims(tokenString, claims, keyFunc) at time t, keyFunc
\* returning jwtKey: decodes the token's claims over the map passed in
\* (entries the token lacks keep their value), validates, verifies.
ParseWithClaims(tokenString, claims, t) ==
    LET decoded == [n \in DOMAIN claims |->
                      IF tokenString.claims[n].t = "absent" THEN claims[n]
                      ELSE FromJSON(tokenString.claims[n])]
        err == \/ tokenString.kind # "jwt"
               \/ tokenString.alg \notin {"HS256", "HS384", "HS512"}
               \/ ~MapClaimsValid(decoded, t)
               \/ tokenString.sig # Sign(tokenString.alg, tokenString.claims, jwtKey)
    IN [err |-> err, valid |-> ~err,
        claims |-> IF tokenString.kind = "jwt" THEN decoded ELSE claims]

\* ---------------------------------------------------------- request header
\* The Authorization header as strings.Split(authHeader, " ") sees it:
\* nparts = 0 stands for the empty (absent) header.
\* A word of the header is the sequence of its characters.
BearerWord == <<"B", "e", "a", "r", "e", "r">>
bearerWord == <<"b", "e", "a", "r", "e", "r">>
BEARERWord == <<"B", "E", "A", "R", "E", "R">>
bEARERWord == <<"b", "E", "A", "R", "E", "R">>
BeArErWord == <<"B", "e", "A", "r", "E", "r">>
TokenWord == <<"T", "o", "k", "e", "n">>
BasicWord == <<"B", "a", "s", "i", "c">>

NoHeader == [nparts |-> 0, scheme |-> <<>>, token |-> EmptyString]
Bearer(tok) == [nparts |-> 2, scheme |-> BearerWord, token |-> tok]

\* strings.ToLower: every upper-case letter is replaced by its lower-case
\* letter, every other character is kept
UpperLetters ==
    <<"A", "B", "C", "D", "E", "F", "G", "H", "I", "J", "K", "L", "M",
      "N", "O", "P", "Q", "R", "S", "T", "U", "V", "W", "X", "Y", "Z">>
LowerLetters ==
    <<"a", "b", "c", "d", "e", "f", "g", "h", "i", "j", "k", "l", "m",
      "n", "o", "p", "q", "r", "s", "t", "u", "v", "w", "x", "y", "z">>
LowerRune(c) ==
    IF \E k \in DOMAIN UpperLetters : UpperLetters[k] = c
    THEN LowerLetters[CHOOSE k \in DOMAIN UpperLetters : UpperLetters[k] = c]
    ELSE c
ToLower(s) == [k \in DOMAIN s |-> LowerRune(s[k])]

\* ExtractTokenFromHeader(r)
ExtractTokenAnyScheme(hdr) ==
    IF hdr.nparts = 0 THEN EmptyString
    ELSE IF hdr.nparts # 2 THEN EmptyString
    ELSE hdr.token
ExtractTokenFromHeader(hdr) ==
    IF hdr.nparts = 0 THEN EmptyString
    ELSE IF hdr.nparts # 2 \/ ToLower(hdr.scheme) # bearerWord THEN EmptyString
    ELSE hdr.token

\* ------------------------------------------------------------------ state
VARIABLES
    now,               \* the wall clock, in clock units
    mainPc,            \* position of main(): "setup", "serving", "exited"
    hasExpiryDefault,  \* whether the expires_at column has a default
    invitation_codes,  \* table: sequence of rows [code, email, used, expires_at]
    users,             \* table: sequence of rows [email, password_hash]
    sessions,          \* table: sequence of rows [user_id, token]
    ipLimiterMap,      \* address -> index into buckets, 0 for no entry
    ipLimiterMapMutex, \* 0 when free, else the holder
    buckets,           \* the *ratelimit.Bucket objects allocated so far
    pc,                \* per goroutine: position in its handler chain
    req,               \* per goroutine: the request served
    local,             \* per goroutine: local variables limiter, user_id
    resp,              \* per goroutine: status written to the ResponseWriter
    hist,              \* per goroutine: what the request did so far
    nreq,              \* requests received so far
    issued,            \* tokens handed out by /token, with the issue time
    acceptLog,         \* <<code, email>> of every registration answered 201
    takeLog,           \* address -> time and result of the last two TakeAvailable calls
    burst,             \* address -> admissions and a refusal at this instant, admissions in all
    sweepPc,           \* position of ProcessResendCodes
    expiredInvitations,\* the sweeper's local slice
    wakeAt,            \* end of the sweeper's sleep
    notified,          \* invitations passed to ResendInvitation in this iteration
    sweepLog           \* what the resend loop did: the time of a failed query not yet
                       \* followed by a successful one, the last result, and the
                       \* rows selected so far

clockVars == <<now>>
dbVars == <<invitation_codes, users, sessions>>
rlVars == <<ipLimiterMap, ipLimiterMapMutex, buckets>>
rlHist == <<takeLog, burst>>
procVars == <<pc, req, local, resp, hist>>
sweepVars == <<sweepPc, expiredInvitations, wakeAt, notified, sweepLog>>
vars == <<now, mainPc, hasExpiryDefault, invitation_codes, users, sessions,
          ipLimiterMap, ipLimiterMapMutex, buckets, pc, req, local, resp, hist,
          nreq, issued, acceptLog, takeLog, burst,
          sweepPc, expiredInvitations, wakeAt, notified, sweepLog>>

NoRequest == [endpoint |-> "", method |-> "", hdr |-> NoHeader, addr |-> "",
              email |-> "", code |-> 0, password |-> ""]
NoHist == [ran |-> FALSE, consume |-> FALSE, insertedUser |-> FALSE, markedUsed |-> FALSE,
           failed |-> FALSE, afterAccept |-> FALSE, rateChecked |-> FALSE,
           tokenChecked |-> FALSE, validAtCheck |-> FALSE, wrote |-> FALSE]
NoTake == [at |-> 0, n |-> -1]
NoLocal == [limiter |-> 0, user_id |-> 0]
NoResponse == [status |-> 0, msg |-> ""]
NoSweep == [failedAt |-> Null, selected |-> <<>>, swept |-> {}]

\* the process right after start-up, serving
InitProcess ==
    /\ now = 0
    /\ mainPc = "serving"
    /\ sessions = <<>>
    /\ ipLimiterMap = [a \in Addrs |-> 0]
    /\ ipLimiterMapMutex = 0
    /\ buckets = <<>>
    /\ pc = [p \in Procs |-> "idle"]
    /\ req = [p \in Procs |-> NoRequest]
    /\ local = [p \in Procs |-> NoLocal]
    /\ resp = [p \in Procs |-> NoResponse]
    /\ hist = [p \in Procs |-> NoHist]
    /\ nreq = 0
    /\ issued = {}
    /\ takeLog = [a \in Addrs |-> <<NoTake, NoTake>>]
    /\ burst = [a \in Addrs |-> [adm |-> 0, refused |-> FALSE, all |-> 0]]
    /\ sweepPc = "off"
    /\ expiredInvitations = <<>>
    /\ wakeAt = 0
    /\ notified = <<>>
    /\ sweepLog = NoSweep

\* an empty database, whose expires_at column has a default or not
Init ==
    /\ InitProcess
    /\ hasExpiryDefault \in BOOLEAN
    /\ invitation_codes = <<>>
    /\ users = <<>>
    /\ acceptLog = <<>>

\* ------------------------------------------------------------------- main
\* main(): SetupDatabase either returns the handle or ends in log.Fatal.
SetupDatabase ==
    /\ mainPc = "setup"
    /\ \E ok \in BOOLEAN : mainPc' = IF ok THEN "serving" ELSE "exited"
    /\ UNCHANGED <<clockVars, hasExpiryDefault, dbVars, rlVars, procVars, nreq, issued,
                   acceptLog, rlHist, sweepVars>>

\* log.Fatal(http.ListenAndServe(...)): when the server returns, the process exits.
ListenAndServeReturns ==
    /\ mainPc = "serving"
    /\ mainPc' = "exited"
    /\ UNCHANGED <<clockVars, hasExpiryDefault, dbVars, rlVars, procVars, nreq, issued,
                   acceptLog, rlHist, sweepVars>>

\* Time passes by d clock units, up to the horizon.
Advance(d, horizon) ==
    /\ now + d <= horizon
    /\ now' = now + d
    /\ burst' = [a \in Addrs |-> [burst[a] EXCEPT !.adm = 0, !.refused = FALSE]]
    /\ UNCHANGED <<mainPc, hasExpiryDefault, dbVars, rlVars, procVars, nreq, issued,
                   acceptLog, takeLog, sweepVars>>

\* ------------------------------------------------------- request dispatch
\* The first handler of the chain registered for an endpoint in main().
FirstHandlerAuthFirst(endpoint) ==
    CASE endpoint = "/token" -> "token"
      [] endpoint = "/invite" -> "auth"
      [] endpoint = "/register" -> "auth"
      [] endpoint = "/login" -> "auth"
FirstHandler(endpoint) ==
    CASE endpoint = "/token" -> "token"
      [] endpoint = "/invite" -> "auth"
      [] endpoint = "/register" -> "auth"
      [] endpoint = "/login" -> "rl_lock"

\* The handler AuthMiddleware wraps for an endpoint.
WrappedHandler(endpoint) ==
    CASE endpoint = "/invite" -> "invite"
      [] endpoint = "/register" -> "reg_exists"
      [] endpoint = "/login" -> "login_find"

\* The server accepts request r and starts goroutine p for it (goroutines
\* are interchangeable: the free one of least index serves).
Receive(p, r) ==
    /\ mainPc = "serving"
    /\ pc[p] \in {"idle", "done"}
    /\ \A q \in Procs : q < p => pc[q] \notin {"idle", "done"}
    /\ nreq < MaxRequests
    /\ nreq' = nreq + 1
    /\ pc' = [pc EXCEPT ![p] = FirstHandler(r.endpoint)]
    /\ req' = [req EXCEPT ![p] = r]
    /\ local' = [local EXCEPT ![p] = NoLocal]
    /\ resp' = [resp EXCEPT ![p] = NoResponse]
    /\ hist' = [hist EXCEPT ![p] = [NoHist EXCEPT
                    !.afterAccept = \E i \in 1 .. Len(acceptLog) :
                                        acceptLog[i] = <<r.code, r.email>>]]
    /\ UNCHANGED <<clockVars, mainPc, hasExpiryDefault, dbVars, rlVars, issued,
                   acceptLog, rlHist, sweepVars>>

\* The server keeps accepting requests for as long as it serves: past
\* MaxRequests they are served as before and no longer counted (the
\* specification that uses this step takes GET /register requests, which
\* write nothing).
ReceiveUncounted(p, r) ==
    /\ mainPc = "serving"
    /\ pc[p] \in {"idle", "done"}
    /\ \A q \in Procs : q < p => pc[q] \notin {"idle", "done"}
    /\ nreq = MaxRequests
    /\ pc' = [pc EXCEPT ![p] = FirstHandler(r.endpoint)]
    /\ req' = [req EXCEPT ![p] = r]
    /\ local' = [local EXCEPT ![p] = NoLocal]
    /\ resp' = [resp EXCEPT ![p] = NoResponse]
    /\ hist' = [hist EXCEPT ![p] = [NoHist EXCEPT
                    !.afterAccept = \E i \in 1 .. Len(acceptLog) :
                                        acceptLog[i] = <<r.code, r.email>>]]
    /\ UNCHANGED <<clockVars, mainPc, hasExpiryDefault, dbVars, rlVars, nreq, issued,
                   acceptLog, rlHist, sweepVars>>

\* http.Error / WriteHeader: the request ends with a status.
Finish(p, status, msg) ==
    /\ pc' = [pc EXCEPT ![p] = "done"]
    /\ resp' = [resp EXCEPT ![p] = [status |-> status, msg |-> msg]]

\* ------------------------------------------------- juju/ratelimit buckets
\* ratelimit.NewBucketWithRate(rate, capacity) at time t: quantum 1 and the
\* fill interval 1s * quantum / rate reproduce the rate exactly.
NewBucketWithRate(rate, capacity, t) ==
    [startTime |-> t, capacity |-> capacity, quantum |-> 1,
     fillInterval |-> (Second * 1) \div rate,
     availableTokens |-> capacity, latestTick |-> 0]

\* Bucket.currentTick(now)
CurrentTick(tb, t) == (t - tb.startTime) \div tb.fillInterval

\* Bucket.adjustavailableTokens(tick)
AdjustNoRefill(tb, tick) == [tb EXCEPT !.latestTick = tick]
AdjustNoClamp(tb, tick) ==
    IF tb.availableTokens >= tb.capacity
    THEN [tb EXCEPT !.latestTick = tick]
    ELSE [tb EXCEPT !.latestTick = tick,
                    !.availableTokens = tb.availableTokens + (tick - tb.latestTick) * tb.quantum]
AdjustAvailableTokens(tb, tick) ==
    IF tb.availableTokens >= tb.capacity
    THEN [tb EXCEPT !.latestTick = tick]
    ELSE LET n == tb.availableTokens + (tick - tb.latestTick) * tb.quantum
         IN [tb EXCEPT !.latestTick = tick,
                       !.availableTokens = IF n > tb.capacity THEN tb.capacity ELSE n]

\* Bucket.TakeAvailable(count) at time t, under the bucket's own mutex:
\* the bucket afterwards and the number of tokens taken.
TakeAvailableUnchecked(tb, count, t) ==
    LET adj == AdjustAvailableTokens(tb, CurrentTick(tb, t))
    IN [bucket |-> [adj EXCEPT !.availableTokens = adj.availableTokens - count], n |-> count]
TakeAvailable(tb, count, t) ==
    LET adj == AdjustAvailableTokens(tb, CurrentTick(tb, t))
        n == IF count <= 0 \/ adj.availableTokens <= 0 THEN 0
             ELSE IF count > adj.availableTokens THEN adj.availableTokens ELSE count
    IN [bucket |-> IF count <= 0 THEN tb
                   ELSE [adj EXCEPT !.availableTokens = adj.availableTokens - n],
        n |-> n]

\* ------------------------------------------------------ RateLimitMiddleware
\* sync.Mutex.Lock succeeds only on a free mutex.
MutexNeverHeld(m) == TRUE
MutexFree(m) == m = 0

\* ipLimiterMapMutex.Lock(); limiter, exists := ipLimiterMap[ip]
RateLimit_Lock(p) ==
    /\ mainPc = "serving"
    /\ pc[p] = "rl_lock"
    /\ MutexFree(ipLimiterMapMutex)
    /\ ipLimiterMapMutex' = p
    /\ local' = [local EXCEPT ![p].limiter = ipLimiterMap[req[p].addr]]
    /\ pc' = [pc EXCEPT ![p] = IF ipLimiterMap[req[p].addr] = 0 THEN "rl_create" ELSE "rl_unlock"]
    /\ UNCHANGED <<clockVars, mainPc, hasExpiryDefault, dbVars, ipLimiterMap, buckets,
                   req, resp, hist, nreq, issued, acceptLog, rlHist, sweepVars>>

\* if !exists { limiter = ratelimit.NewBucketWithRate(1, 1); ipLimiterMap[ip] = limiter }
RateLimit_Create(p) ==
    /\ mainPc = "serving"
    /\ pc[p] = "rl_create"
    /\ buckets' = Append(buckets, NewBucketWithRate(BucketRate, BucketCapacity, now))
    /\ local' = [local EXCEPT ![p].limiter = Len(buckets) + 1]
    /\ ipLimiterMap' = [ipLimiterMap EXCEPT ![req[p].addr] = Len(buckets) + 1]
    /\ pc' = [pc EXCEPT ![p] = "rl_unlock"]
    /\ UNCHANGED <<clockVars, mainPc, hasExpiryDefault, dbVars, ipLimiterMapMutex,
                   req, resp, hist, nreq, issued, acceptLog, rlHist, sweepVars>>

\* ipLimiterMapMutex.Unlock()
RateLimit_Unlock(p) ==
    /\ mainPc = "serving"
    /\ pc[p] = "rl_unlock"
    /\ ipLimiterMapMutex' = 0
    /\ pc' = [pc EXCEPT ![p] = "rl_take"]
    /\ UNCHANGED <<clockVars, mainPc, hasExpiryDefault, dbVars, ipLimiterMap, buckets,
                   req, local, resp, hist, nreq, issued, acceptLog, rlHist, sweepVars>>

\* if limiter.TakeAvailable(1) == 0 { 429 } else next.ServeHTTP(w, r)
RateLimit_Take(p) ==
    /\ mainPc = "serving"
    /\ pc[p] = "rl_take"
    /\ LET a == req[p].addr
           r == TakeAvailable(buckets[local[p].limiter], TakeCount, now)
       IN /\ buckets' = [buckets EXCEPT ![local[p].limiter] = r.bucket]
          /\ takeLog' = [takeLog EXCEPT ![a] = <<takeLog[a][2], [at |-> now, n |-> r.n]>>]
          /\ burst' = [burst EXCEPT ![a] = IF r.n = 0 THEN [@ EXCEPT !.refused = TRUE]
                                                      ELSE [@ EXCEPT !.adm = @ + 1, !.all = @ + 1]]
          /\ hist' = [hist EXCEPT ![p].rateChecked = TRUE]
          /\ local' = [local EXCEPT ![p].limiter = 0]
          /\ IF r.n = 0
             THEN Finish(p, 429, "Rate limit exceeded")
             ELSE /\ pc' = [pc EXCEPT ![p] = "auth"]
                  /\ resp' = resp
    /\ UNCHANGED <<clockVars, mainPc, hasExpiryDefault, dbVars, ipLimiterMap, ipLimiterMapMutex,
                   req, nreq, issued, acceptLog, sweepVars>>

\* ------------------------------------------------------------ AuthMiddleware
\* The decision of AuthMiddleware for a request at time t: the response it
\* writes, or NoResponse when it calls next.ServeHTTP.
AuthDecision(r, t) ==
    LET claims == [email |-> GoString(r.email),
                   expiry |-> GoInt64(Unix(t + TokenValidity)),
                   exp |-> Absent]
        tokenString == ExtractTokenFromHeader(r.hdr)
        parsed == ParseWithClaims(tokenString, claims, t)
        expClaim == parsed.claims.expiry
    IN IF tokenString.kind = "empty"
       THEN [status |-> 401, msg |-> "Authorization header not found"]
       ELSE IF parsed.err \/ ~parsed.valid
       THEN [status |-> 401, msg |-> "Invalid token"]
       ELSE IF expClaim.t # "float64" \/ expClaim.v = 0
       THEN [status |-> 401, msg |-> "Expired token"]
       ELSE NoResponse

AuthMiddleware(p) ==
    /\ mainPc = "serving"
    /\ pc[p] = "auth"
    /\ hist' = [hist EXCEPT ![p].tokenChecked = TRUE]
    /\ IF AuthDecision(req[p], now).status # 0
       THEN Finish(p, AuthDecision(req[p], now).status, AuthDecision(req[p], now).msg)
       ELSE /\ pc' = [pc EXCEPT ![p] = WrappedHandler(req[p].endpoint)]
            /\ resp' = resp
    /\ UNCHANGED <<clockVars, mainPc, hasExpiryDefault, dbVars, rlVars,
                   req, local, nreq, issued, acceptLog, rlHist, sweepVars>>

\* ------------------------------------------------------ GenerateTokenHandler
GenerateTokenHandler(p) ==
    /\ mainPc = "serving"
    /\ pc[p] = "token"
    /\ IF req[p].email = ""
       THEN /\ Finish(p, 401, "Email header not found")
            /\ issued' = issued
       ELSE /\ Finish(p, 200, "token")
            /\ issued' = issued \cup {[token |-> GenerateJWTToken(req[p].email, now),
                                       at |-> now, ExpireAt |-> now + TokenValidity]}
    /\ hist' = [hist EXCEPT ![p].ran = TRUE]
    /\ UNCHANGED <<clockVars, mainPc, hasExpiryDefault, dbVars, rlVars,
                   req, local, nreq, acceptLog, rlHist, sweepVars>>

\* ------------------------------------------------------------ SQL statements
\* SELECT EXISTS(SELECT 1 FROM invitation_codes WHERE code=$1 AND email=$2)
CodeExists(tab, code, email) ==
    \E i \in DOMAIN tab : tab[i].code = code /\ tab[i].email = email

\* SELECT EXISTS(... WHERE code=$1 AND used=true AND email=$2)
IsCodeUsed(tab, code, email) ==
    \E i \in DOMAIN tab : tab[i].code = code /\ tab[i].used /\ tab[i].email = email

\* SELECT EXISTS(... WHERE code=$1 AND used=false AND email=$2
\*               AND expires_at > NOW() - INTERVAL '2 minutes')
\* (a comparison with NULL is not true)
IsValidCode(tab, code, email, t) ==
    \E i \in DOMAIN tab :
        /\ tab[i].code = code /\ ~tab[i].used /\ tab[i].email = email
        /\ tab[i].expires_at # Null /\ tab[i].expires_at > t - GraceInterval

\* UPDATE invitation_codes SET used=true WHERE code=$1
MarkUsedNoRow(tab, code) == tab
MarkUsedToggle(tab, code) ==
    [i \in DOMAIN tab |-> IF tab[i].code = code THEN [tab[i] EXCEPT !.used = ~@] ELSE tab[i]]
MarkUsed(tab, code) ==
    [i \in DOMAIN tab |-> IF tab[i].code = code THEN [tab[i] EXCEPT !.used = TRUE] ELSE tab[i]]

\* INSERT INTO invitation_codes (code, email, used) VALUES ($1, $2, false):
\* expires_at gets the column default, if the column has one.
InsertInvitation(tab, code, email, t, withDefault) ==
    Append(tab, [code |-> code, email |-> email, used |-> FALSE,
                 expires_at |-> IF withDefault THEN t + ValidityWindow ELSE Null])

\* SELECT id, email FROM invitation_codes
\*   WHERE used = false AND expires_at < NOW() - INTERVAL '2 minutes'
RECURSIVE SelectExpired(_, _, _)
RECURSIVE SelectExpiredNoInterval(_, _, _)
SelectExpiredNoInterval(tab, t, i) ==
    IF i > Len(tab) THEN <<>>
    ELSE IF ~tab[i].used /\ tab[i].expires_at # Null /\ tab[i].expires_at < t
         THEN <<[ID |-> i, Email |-> tab[i].email]>> \o SelectExpiredNoInterval(tab, t, i + 1)
         ELSE SelectExpiredNoInterval(tab, t, i + 1)
SelectExpired(tab, t, i) ==
    IF i > Len(tab) THEN <<>>
    ELSE IF ~tab[i].used /\ tab[i].expires_at # Null /\ tab[i].expires_at < t - GraceInterval
         THEN <<[ID |-> i, Email |-> tab[i].email]>> \o SelectExpired(tab, t, i + 1)
         ELSE SelectExpired(tab, t, i + 1)

\* GetExpiredInvitations(db), as the set of its possible results: db.Query or
\* rows.Scan fails and it returns (nil, err); or the loop over rows.Next()
\* ends and it returns the rows read so far with a nil error. rows.Next()
\* also ends the loop when the iteration fails, and rows.Err() is not
\* consulted, so the rows returned may be any prefix of the selection.
GetExpiredInvitations(tab, t) ==
    LET rows == SelectExpired(tab, t, 1)
    IN {[err |-> TRUE, rows |-> <<>>]} \cup
       {[err |-> FALSE, rows |-> SubSeq(rows, 1, k)] : k \in 0 .. Len(rows)}

\* bcrypt.GenerateFromPassword / bcrypt.CompareHashAndPassword
GenerateFromPassword(pw) == [bcrypt |-> pw]
CompareHashAndPassword(h, pw) == h = [bcrypt |-> pw]

\* base64.URLEncoding.EncodeToString of 16 fresh random bytes: a value no
\* earlier row carries
FreshCode(tab) == Len(tab) + 1

\* ------------------------------------------- GenerateInvitationCodeHandler
GenerateInvitationCodeHandler(p) ==
    /\ mainPc = "serving"
    /\ pc[p] = "invite"
    /\ \E randOk, dbOk \in BOOLEAN :
         IF ~randOk
         THEN /\ Finish(p, 500, "rand")
              /\ invitation_codes' = invitation_codes
              /\ hist' = [hist EXCEPT ![p].ran = TRUE, ![p].failed = TRUE]
         ELSE IF ~dbOk
         THEN /\ Finish(p, 500, "db")
              /\ invitation_codes' = invitation_codes
              /\ hist' = [hist EXCEPT ![p].ran = TRUE, ![p].failed = TRUE]
         ELSE /\ Finish(p, 200, "code")
              /\ invitation_codes' = InsertInvitation(invitation_codes, FreshCode(invitation_codes),
                                                      req[p].email, now, hasExpiryDefault)
              /\ hist' = [hist EXCEPT ![p].ran = TRUE, ![p].wrote = TRUE]
    /\ UNCHANGED <<clockVars, mainPc, hasExpiryDefault, users, sessions, rlVars,
                   req, local, nreq, issued, acceptLog, rlHist, sweepVars>>

\* ------------------------------------------------------------ RegisterHandler
\* The condition under which a code is valid for consumption at time t:
\* used = false, t < expires_at, bound email = claimed email.
ValidForConsumption(tab, code, email, t) ==
    \E i \in DOMAIN tab :
        /\ tab[i].code = code /\ tab[i].email = email /\ ~tab[i].used
        /\ tab[i].expires_at # Null /\ t < tab[i].expires_at

\* method check, then the codeExists query
RegisterHandler_CodeExists(p) ==
    /\ mainPc = "serving"
    /\ pc[p] = "reg_exists"
    /\ IF req[p].method # "POST"
       THEN /\ Finish(p, 405, "Only POST method is allowed!")
            /\ hist' = [hist EXCEPT ![p].ran = TRUE]
       ELSE \E dbOk \in BOOLEAN :
            IF ~dbOk
            THEN /\ Finish(p, 500, "db")
                 /\ hist' = [hist EXCEPT ![p].ran = TRUE, ![p].consume = TRUE, ![p].failed = TRUE]
            ELSE /\ hist' = [hist EXCEPT ![p].ran = TRUE, ![p].consume = TRUE,
                                        ![p].validAtCheck =
                            ValidForConsumption(invitation_codes, req[p].code, req[p].email, now)]
                 /\ IF ~CodeExists(invitation_codes, req[p].code, req[p].email)
                    THEN Finish(p, 400, "Invalid invitation code")
                    ELSE /\ pc' = [pc EXCEPT ![p] = "reg_used"]
                         /\ resp' = resp
    /\ UNCHANGED <<clockVars, mainPc, hasExpiryDefault, dbVars, rlVars,
                   req, local, nreq, issued, acceptLog, rlHist, sweepVars>>

\* the isCodeUsed query
RegisterHandler_IsCodeUsed(p) ==
    /\ mainPc = "serving"
    /\ pc[p] = "reg_used"
    /\ \E dbOk \in BOOLEAN :
         IF ~dbOk
         THEN /\ Finish(p, 500, "db")
              /\ hist' = [hist EXCEPT ![p].failed = TRUE]
         ELSE /\ hist' = [hist EXCEPT ![p].validAtCheck =
                            ValidForConsumption(invitation_codes, req[p].code, req[p].email, now)]
              /\ IF IsCodeUsed(invitation_codes, req[p].code, req[p].email)
                 THEN Finish(p, 400, "Used invitation code")
                 ELSE /\ pc' = [pc EXCEPT ![p] = "reg_valid"]
                      /\ resp' = resp
    /\ UNCHANGED <<clockVars, mainPc, hasExpiryDefault, dbVars, rlVars,
                   req, local, nreq, issued, acceptLog, rlHist, sweepVars>>

\* the isValidCode query
RegisterHandler_MarkThenCheck(p) ==
    /\ mainPc = "serving"
    /\ pc[p] = "reg_valid"
    /\ hist' = [hist EXCEPT ![p].validAtCheck =
                   ValidForConsumption(invitation_codes, req[p].code, req[p].email, now)]
    /\ invitation_codes' = MarkUsed(invitation_codes, req[p].code)
    /\ IF ~IsValidCode(invitation_codes, req[p].code, req[p].email, now)
       THEN Finish(p, 400, "Expired invitation code")
       ELSE /\ pc' = [pc EXCEPT ![p] = "reg_insert"]
            /\ resp' = resp
    /\ UNCHANGED <<clockVars, mainPc, hasExpiryDefault, users, sessions, rlVars,
                   req, local, nreq, issued, acceptLog, rlHist, sweepVars>>
RegisterHandler_IsValidCode(p) ==
    /\ mainPc = "serving"
    /\ pc[p] = "reg_valid"
    /\ \E dbOk \in BOOLEAN :
         IF ~dbOk
         THEN /\ Finish(p, 500, "db")
              /\ hist' = [hist EXCEPT ![p].failed = TRUE]
         ELSE /\ hist' = [hist EXCEPT ![p].validAtCheck =
                            ValidForConsumption(invitation_codes, req[p].code, req[p].email, now)]
              /\ IF ~IsValidCode(invitation_codes, req[p].code, req[p].email, now)
                 THEN Finish(p, 400, "Expired invitation code")
                 ELSE /\ pc' = [pc EXCEPT ![p] = "reg_insert"]
                      /\ resp' = resp
    /\ UNCHANGED <<clockVars, mainPc, hasExpiryDefault, dbVars, rlVars,
                   req, local, nreq, issued, acceptLog, rlHist, sweepVars>>

\* bcrypt.GenerateFromPassword, then INSERT INTO users
RegisterHandler_InsertUser(p) ==
    /\ mainPc = "serving"
    /\ pc[p] = "reg_insert"
    /\ \E hashOk, dbOk \in BOOLEAN :
         IF ~hashOk
         THEN /\ Finish(p, 500, "bcrypt")
              /\ users' = users
              /\ hist' = [hist EXCEPT ![p].failed = TRUE]
         ELSE IF ~dbOk
         THEN /\ Finish(p, 500, "db")
              /\ users' = users
              /\ hist' = [hist EXCEPT ![p].failed = TRUE]
         ELSE /\ users' = Append(users, [email |-> req[p].email,
                                         password_hash |-> GenerateFromPassword(req[p].password)])
              /\ hist' = [hist EXCEPT ![p].insertedUser = TRUE, ![p].wrote = TRUE]
              /\ pc' = [pc EXCEPT ![p] = "reg_mark"]
              /\ resp' = resp
    /\ UNCHANGED <<clockVars, mainPc, hasExpiryDefault, invitation_codes, sessions, rlVars,
                   req, local, nreq, issued, acceptLog, rlHist, sweepVars>>

\* UPDATE invitation_codes SET used=true, then 201
RegisterHandler_MarkUsed(p) ==
    /\ mainPc = "serving"
    /\ pc[p] = "reg_mark"
    /\ \E dbOk \in BOOLEAN :
         IF ~dbOk
         THEN /\ Finish(p, 500, "db")
              /\ invitation_codes' = invitation_codes
              /\ acceptLog' = acceptLog
              /\ hist' = [hist EXCEPT ![p].failed = TRUE]
         ELSE /\ Finish(p, 201, "User registered successfully")
              /\ invitation_codes' = MarkUsed(invitation_codes, req[p].code)
              /\ acceptLog' = Append(acceptLog, <<req[p].code, req[p].email>>)
              /\ hist' = [hist EXCEPT ![p].markedUsed = TRUE]
    /\ UNCHANGED <<clockVars, mainPc, hasExpiryDefault, users, sessions, rlVars,
                   req, local, nreq, issued, rlHist, sweepVars>>

\* --------------------------------------------------------------- LoginHandler
\* rows of users with the given email
UsersByEmail(tab, email) == {i \in DOMAIN tab : tab[i].email = email}

\* header and method checks, SELECT password_hash, bcrypt comparison
LoginHandler_FindUser(p) ==
    /\ mainPc = "serving"
    /\ pc[p] = "login_find"
    /\ IF ExtractTokenFromHeader(req[p].hdr).kind = "empty"
       THEN /\ Finish(p, 401, "Authorization header not found")
            /\ hist' = [hist EXCEPT ![p].ran = TRUE]
       ELSE IF req[p].method # "POST"
       THEN /\ Finish(p, 405, "Only POST method is allowed!")
            /\ hist' = [hist EXCEPT ![p].ran = TRUE]
       ELSE \E dbOk \in BOOLEAN :
            IF ~dbOk \/ UsersByEmail(users, req[p].email) = {}
            THEN /\ Finish(p, 401, "User not found")
                 /\ hist' = [hist EXCEPT ![p].ran = TRUE, ![p].failed = ~dbOk]
            ELSE \E i \in UsersByEmail(users, req[p].email) :
                 /\ hist' = [hist EXCEPT ![p].ran = TRUE]
                 /\ IF ~CompareHashAndPassword(users[i].password_hash, req[p].password)
                    THEN Finish(p, 405, "Invalid credential!")
                    ELSE /\ pc' = [pc EXCEPT ![p] = "login_id"]
                         /\ resp' = resp
    /\ UNCHANGED <<clockVars, mainPc, hasExpiryDefault, dbVars, rlVars,
                   req, local, nreq, issued, acceptLog, rlHist, sweepVars>>

\* _ = db.QueryRow("SELECT id FROM users WHERE email = $1").Scan(&user_id):
\* the error is dropped and user_id keeps its zero value
LoginHandler_UserId(p) ==
    /\ mainPc = "serving"
    /\ pc[p] = "login_id"
    /\ \E dbOk \in BOOLEAN :
         IF ~dbOk \/ UsersByEmail(users, req[p].email) = {}
         THEN /\ local' = [local EXCEPT ![p].user_id = 0]
              /\ hist' = [hist EXCEPT ![p].failed = TRUE]
         ELSE \E i \in UsersByEmail(users, req[p].email) :
              /\ local' = [local EXCEPT ![p].user_id = i]
              /\ hist' = hist
    /\ pc' = [pc EXCEPT ![p] = "login_session"]
    /\ UNCHANGED <<clockVars, mainPc, hasExpiryDefault, dbVars, rlVars,
                   req, resp, nreq, issued, acceptLog, rlHist, sweepVars>>

\* INSERT INTO sessions (user_id, token), then 200
LoginHandler_InsertSession(p) ==
    /\ mainPc = "serving"
    /\ pc[p] = "login_session"
    /\ \E dbOk \in BOOLEAN :
         IF ~dbOk
         THEN /\ Finish(p, 500, "db")
              /\ sessions' = sessions
              /\ hist' = [hist EXCEPT ![p].failed = TRUE]
         ELSE /\ Finish(p, 200, "Logged in successfully!")
              /\ sessions' = Append(sessions, [user_id |-> local[p].user_id,
                                               token |-> ExtractTokenFromHeader(req[p].hdr)])
              /\ hist' = [hist EXCEPT ![p].wrote = TRUE]
    /\ UNCHANGED <<clockVars, mainPc, hasExpiryDefault, invitation_codes, users, rlVars,
                   req, local, nreq, issued, acceptLog, rlHist, sweepVars>>

\* ---------------------------------------------------------- ProcessResendCodes
\* ProcessResendCodes(db) is called with the open handle and enters its loop.
\* (main() itself has the call behind log.Fatal: see NextMain.)
ProcessResendCodes_Enter ==
    /\ mainPc = "serving"
    /\ sweepPc = "off"
    /\ sweepPc' = "query"
    /\ UNCHANGED <<clockVars, mainPc, hasExpiryDefault, dbVars, rlVars, procVars, nreq,
                   issued, acceptLog, rlHist, expiredInvitations, wakeAt, notified, sweepLog>>

\* the elements of a sequence
Range(seq) == {seq[k] : k \in DOMAIN seq}

\* expiredInvitations, err := GetExpiredInvitations(db); on an error the
\* loop prints and reaches its continue statement
ProcessResendCodes_Query ==
    /\ sweepPc = "query"
    /\ \E res \in GetExpiredInvitations(invitation_codes, now) :
         IF res.err
         THEN /\ sweepPc' = "continue"
              /\ expiredInvitations' = expiredInvitations
              /\ notified' = notified
              /\ sweepLog' = [sweepLog EXCEPT !.failedAt = now]
         ELSE LET result == res.rows
              IN /\ sweepPc' = "resend"
                 /\ expiredInvitations' = result
                 /\ notified' = <<>>
                 /\ sweepLog' = [failedAt |-> Null,
                                 selected |-> result,
                                 swept |-> sweepLog.swept \cup
                                    {[ID |-> x.ID, n |-> nreq] : x \in
                                       {y \in Range(result) :
                                          \A z \in sweepLog.swept : z.ID # y.ID}}]
    /\ UNCHANGED <<clockVars, mainPc, hasExpiryDefault, dbVars, rlVars, procVars, nreq,
                   issued, acceptLog, rlHist, wakeAt>>

\* continue: the next iteration of the for loop starts at once, with the query
ProcessResendCodes_Continue ==
    /\ sweepPc = "continue"
    /\ sweepPc' = "query"
    /\ UNCHANGED <<clockVars, mainPc, hasExpiryDefault, dbVars, rlVars, procVars, nreq,
                   issued, acceptLog, rlHist, expiredInvitations, wakeAt, notified, sweepLog>>

\* one iteration of the range loop: ResendInvitation(invitation) prints and
\* returns nil, so the branch that logs an error is never taken; the loop
\* goes on to the next element either way
ResendInvitation ==
    /\ sweepPc = "resend"
    /\ expiredInvitations # <<>>
    /\ notified' = Append(notified, Head(expiredInvitations))
    /\ expiredInvitations' = Tail(expiredInvitations)
    /\ UNCHANGED <<clockVars, mainPc, hasExpiryDefault, dbVars, rlVars, procVars, nreq,
                   issued, acceptLog, rlHist, sweepPc, wakeAt, sweepLog>>

\* time.Sleep(2 * time.Hour) begins
ProcessResendCodes_Sleep ==
    /\ sweepPc = "resend"
    /\ expiredInvitations = <<>>
    /\ sweepPc' = "sleep"
    /\ wakeAt' = now + SweepInterval
    /\ UNCHANGED <<clockVars, mainPc, hasExpiryDefault, dbVars, rlVars, procVars, nreq,
                   issued, acceptLog, rlHist, expiredInvitations, notified, sweepLog>>

\* time.Sleep returns
ProcessResendCodes_Wake ==
    /\ sweepPc = "sleep"
    /\ now >= wakeAt
    /\ sweepPc' = "query"
    /\ UNCHANGED <<clockVars, mainPc, hasExpiryDefault, dbVars, rlVars, procVars, nreq,
                   issued, acceptLog, rlHist, expiredInvitations, wakeAt, notified, sweepLog>>

\* ------------------------------------------------------------------ requests
\* a token as /token hands it out at time 0
ValidToken == GenerateJWTToken("a@x.com", 0)

InviteRequests ==
    {[endpoint |-> "/invite", method |-> "POST", hdr |-> Bearer(ValidToken),
      addr |-> "1.2.3.4:1000", email |-> e, code |-> 0, password |-> ""] : e \in Emails}

RegisterRequests ==
    {[endpoint |-> "/register", method |-> m, hdr |-> Bearer(ValidToken),
      addr |-> "1.2.3.4:1000", email |-> e, code |-> c, password |-> "pw1"] :
        m \in {"POST", "GET"}, e \in Emails, c \in 1 .. MaxCodes}

RegisterPosts == {r \in RegisterRequests : r.method = "POST"}

\* no more /invite requests are taken than the table has room for
RoomFor(r) ==
    r.endpoint = "/invite" =>
        Len(invitation_codes)
          + Cardinality({q \in Procs : pc[q] \notin {"idle", "done"} /\ req[q].endpoint = "/invite"})
          < MaxCodes

Idle == \A q \in Procs : pc[q] \in {"idle", "done"}

GateStep(p) == AuthMiddleware(p)

RegistryStep(p) ==
    \/ GenerateInvitationCodeHandler(p)
    \/ RegisterHandler_CodeExists(p)
    \/ RegisterHandler_IsCodeUsed(p)
    \/ RegisterHandler_IsValidCode(p)
    \/ RegisterHandler_InsertUser(p)
    \/ RegisterHandler_MarkUsed(p)

LoginStep(p) ==
    \/ LoginHandler_FindUser(p)
    \/ LoginHandler_UserId(p)
    \/ LoginHandler_InsertSession(p)

RateStep(p) ==
    \/ RateLimit_Lock(p)
    \/ RateLimit_Create(p)
    \/ RateLimit_Unlock(p)
    \/ RateLimit_Take(p)

SweepStep ==
    \/ ProcessResendCodes_Enter
    \/ ProcessResendCodes_Query
    \/ ProcessResendCodes_Continue
    \/ ResendInvitation
    \/ ProcessResendCodes_Sleep
    \/ ProcessResendCodes_Wake

\* ------------------------------------------------------------ specifications
\* Registration requests served one after the other.
NextSequential ==
    \/ Advance(Minute, MaxMinutes * Minute)
    \/ \E p \in Procs, r \in InviteRequests \cup RegisterRequests :
          Idle /\ RoomFor(r) /\ Receive(p, r)
    \/ \E p \in Procs : GateStep(p)
    \/ \E p \in Procs : RegistryStep(p)
SpecSequential == Init /\ [][NextSequential]_vars

\* Invitation issuance and registration served concurrently, next to the sweeper.
NextRegistry ==
    \/ Advance(ValidityWindow, MaxMinutes * Minute)
    \/ \E p \in Procs, r \in InviteRequests \cup RegisterPosts :
          RoomFor(r) /\ Receive(p, r)
    \/ \E p \in Procs : GateStep(p)
    \/ \E p \in Procs : RegistryStep(p)
    \/ ProcessResendCodes_Enter
    \/ ProcessResendCodes_Query
    \/ ProcessResendCodes_Continue
    \/ ResendInvitation
    \/ ProcessResendCodes_Sleep
SpecRegistry == Init /\ [][NextRegistry]_vars

\* Login requests passing the rate limiter, on a clock of 1/Resolution s.
LoginRequests ==
    {[endpoint |-> "/login", method |-> "POST", hdr |-> h,
      addr |-> a, email |-> "a@x.com", code |-> 0, password |-> "pw1"] :
        h \in {Bearer(ValidToken)}, a \in Addrs}

NextRate ==
    \/ Advance(1, MaxRateUnits)
    \/ Advance(IdleSeconds * Second, IdleSeconds * Second + MaxRateUnits)
    \/ \E p \in Procs, r \in LoginRequests : Receive(p, r)
    \/ \E p \in Procs : RateLimit_Lock(p)
    \/ \E p \in Procs : RateLimit_Create(p)
    \/ \E p \in Procs : RateLimit_Unlock(p)
    \/ \E p \in Procs : RateLimit_Take(p)
    \/ \E p \in Procs : AuthMiddleware(p)
    \/ \E p \in Procs : LoginHandler_FindUser(p)
InitRate == Init /\ hasExpiryDefault = TRUE
SpecRate == InitRate /\ [][NextRate]_vars

\* The gate in front of the three gated endpoints, requests served one after
\* the other on a clock of hours.  The database holds one account, registered
\* with invitation 1.
InitGate ==
    /\ InitProcess
    /\ hasExpiryDefault = TRUE
    /\ invitation_codes = <<[code |-> 1, email |-> "a@x.com", used |-> TRUE,
                             expires_at |-> ValidityWindow]>>
    /\ users = <<[email |-> "a@x.com", password_hash |-> GenerateFromPassword("pw1")]>>
    /\ acceptLog = << <<1, "a@x.com">> >>

\* tokens a client can put together itself
Craft(expiry, exp, key, alg) ==
    SignedString(alg, [email |-> GoString("a@x.com"), expiry |-> expiry, exp |-> exp], key)
GoodExpiry == GoInt64(Unix(TokenValidity))
Tampered == [ValidToken EXCEPT !.claims = [@ EXCEPT !.email = GoString("b@y.com")]]
CraftedTokens ==
    {Craft(Absent, Absent, jwtKey, "HS256"),
     Craft(GoInt64(0), Absent, jwtKey, "HS256"),
     Craft(JSONDigits(Unix(TokenValidity)), Absent, jwtKey, "HS256"),
     Craft(GoodExpiry, Absent, otherKey, "HS256"),
     Craft(GoodExpiry, Absent, "", "none"),
     Craft(GoodExpiry, GoInt64(1), jwtKey, "HS256"),
     Tampered,
     Garbage}

GateHeaders ==
    {NoHeader,
     [nparts |-> 1, scheme |-> BearerWord, token |-> EmptyString],
     [nparts |-> 2, scheme |-> TokenWord, token |-> ValidToken],
     [nparts |-> 2, scheme |-> BasicWord, token |-> ValidToken],
     [nparts |-> 3, scheme |-> BearerWord, token |-> ValidToken],
     [nparts |-> 2, scheme |-> bearerWord, token |-> ValidToken],
     [nparts |-> 2, scheme |-> BEARERWord, token |-> ValidToken],
     [nparts |-> 2, scheme |-> bEARERWord, token |-> ValidToken],
     [nparts |-> 2, scheme |-> BeArErWord, token |-> ValidToken],
     Bearer(EmptyString),
     Bearer(ValidToken)}
      \cup {Bearer(t) : t \in CraftedTokens}
      \cup {Bearer(i.token) : i \in issued}

GatedRequests ==
    {[endpoint |-> ep, method |-> "POST", hdr |-> h,
      addr |-> "1.2.3.4:1000", email |-> "a@x.com", code |-> 2, password |-> "pw1"] :
        ep \in {"/invite", "/register", "/login"}, h \in GateHeaders}

TokenRequests ==
    {[endpoint |-> "/token", method |-> "POST", hdr |-> NoHeader,
      addr |-> "1.2.3.4:1000", email |-> e, code |-> 0, password |-> ""] :
        e \in {"a@x.com", ""}}

NextGate ==
    \/ Advance(Hour, MaxHours * Hour)
    \/ \E p \in Procs, r \in TokenRequests \cup GatedRequests :
          Idle /\ RoomFor(r) /\ Receive(p, r)
    \/ \E p \in Procs : GenerateTokenHandler(p)
    \/ \E p \in Procs : RateStep(p)
    \/ \E p \in Procs : GateStep(p)
    \/ \E p \in Procs : RegistryStep(p)
    \/ \E p \in Procs : LoginStep(p)
SpecGate == InitGate /\ [][NextGate]_vars

\* Login attempts with a valid token, for the registered account and for an
\* unknown one, with the right and with a wrong password.
CredentialRequests ==
    {[endpoint |-> "/login", method |-> "POST", hdr |-> Bearer(ValidToken),
      addr |-> "1.2.3.4:1000", email |-> e, code |-> 0, password |-> pw] :
        e \in Emails, pw \in Passwords}

NextLogin ==
    \/ Advance(Hour, MaxHours * Hour)
    \/ \E p \in Procs, r \in CredentialRequests : Idle /\ Receive(p, r)
    \/ \E p \in Procs : RateStep(p)
    \/ \E p \in Procs : GateStep(p)
    \/ \E p \in Procs : LoginStep(p)
SpecLogin == InitGate /\ [][NextLogin]_vars

\* ProcessResendCodes running against the database the handlers work on,
\* requests of one invitee served one after the other; the clock moves in
\* steps of a minute, or from the start by the loop's sleep.  The expires_at
\* column has its default.
SweeperRequests == {r \in InviteRequests \cup RegisterPosts : r.email = "a@x.com"}

NextSweeper ==
    \/ Advance(Minute, MaxMinutes * Minute)
    \/ Advance(SweepInterval, SweepInterval)
    \/ \E p \in Procs, r \in SweeperRequests :
          Idle /\ RoomFor(r) /\ Receive(p, r)
    \/ \E p \in Procs : GateStep(p)
    \/ \E p \in Procs : RegistryStep(p)
    \/ SweepStep
InitSweeper == Init /\ hasExpiryDefault = TRUE
SpecSweeper == InitSweeper /\ [][NextSweeper]_vars

\* main() from its first statement.  ListenAndServe blocks while the server
\* serves; when it returns, log.Fatal ends the process, so the call of
\* ProcessResendCodes on the next line is never reached and no step of main
\* enters the resend loop.  Goroutines that can run are scheduled (weak
\* fairness of the handler steps and of the clock); nothing obliges
\* ListenAndServe to return, and requests keep arriving.
InitMain ==
    /\ now = 0
    /\ mainPc = "setup"
    /\ hasExpiryDefault \in BOOLEAN
    /\ invitation_codes = <<>>
    /\ users = <<>>
    /\ sessions = <<>>
    /\ acceptLog = <<>>
    /\ ipLimiterMap = [a \in Addrs |-> 0]
    /\ ipLimiterMapMutex = 0
    /\ buckets = <<>>
    /\ pc = [p \in Procs |-> "idle"]
    /\ req = [p \in Procs |-> NoRequest]
    /\ local = [p \in Procs |-> NoLocal]
    /\ resp = [p \in Procs |-> NoResponse]
    /\ hist = [p \in Procs |-> NoHist]
    /\ nreq = 0
    /\ issued = {}
    /\ takeLog = [a \in Addrs |-> <<NoTake, NoTake>>]
    /\ burst = [a \in Addrs |-> [adm |-> 0, refused |-> FALSE, all |-> 0]]
    /\ sweepPc = "off"
    /\ expiredInvitations = <<>>
    /\ wakeAt = 0
    /\ notified = <<>>
    /\ sweepLog = NoSweep

MainRequestStep ==
    \/ \E p \in Procs, r \in InviteRequests \cup RegisterPosts :
          Idle /\ RoomFor(r) /\ Receive(p, r)
    \/ \E p \in Procs, r \in RegisterRequests \ RegisterPosts :
          Idle /\ ReceiveUncounted(p, r)
    \/ \E p \in Procs : GateStep(p)
    \/ \E p \in Procs : RegistryStep(p)

NextMain ==
    \/ SetupDatabase
    \/ ListenAndServeReturns
    \/ Advance(ValidityWindow, MaxMinutes * Minute)
    \/ MainRequestStep
SpecMain ==
    /\ InitMain
    /\ [][NextMain]_vars
    /\ WF_vars(SetupDatabase)
    /\ WF_vars(MainRequestStep)
    /\ WF_vars(Advance(ValidityWindow, MaxMinutes * Minute))

\* ---------------------------------------------------------------- properties
Accepted(p) == pc[p] = "done" /\ req[p].endpoint = "/register" /\ resp[p].status = 201
AcceptedFor(code) == {i \in 1 .. Len(acceptLog) : acceptLog[i][1] = code}

\* C1: with registration requests served one after the other, at most one
\* request per invitation code is answered 201, and a request for a
\* (code, email) received after an accepted one is never accepted; when its
\* queries are answered it is refused as "Used invitation code".
C1_ConsumeAtMostOnce ==
    /\ \A c \in 1 .. MaxCodes : Cardinality(AcceptedFor(c)) <= 1
    /\ \A p \in Procs :
         (pc[p] = "done" /\ req[p].endpoint = "/register" /\ hist[p].afterAccept) =>
            /\ resp[p].status # 201
            /\ (hist[p].consume /\ ~hist[p].failed) =>
                  resp[p] = [status |-> 400, msg |-> "Used invitation code"]

C1_Witness ==
    \E p \in Procs :
        /\ pc[p] = "done" /\ req[p].endpoint = "/register" /\ hist[p].afterAccept
        /\ resp[p] = [status |-> 400, msg |-> "Used invitation code"]
        /\ Cardinality(AcceptedFor(req[p].code)) = 1

\* C2: two registration requests with the same (code, email) served
\* concurrently are never both answered 201.
C2_NoDoubleAccept ==
    \A p, q \in Procs :
        (p # q /\ Accepted(p) /\ Accepted(q)) =>
            <<req[p].code, req[p].email>> # <<req[q].code, req[q].email>>

\* C3: a finished registration request inserted a user row if and only if
\* it set the used flag of its code.
C3_SingleTransaction ==
    \A p \in Procs :
        (pc[p] = "done" /\ req[p].endpoint = "/register") =>
            (hist[p].insertedUser <=> hist[p].markedUsed)

\* C4: a registration request whose statements all succeed is answered 201
\* if and only if, at the time of its checks, a row exists with its code and
\* email, used = false and now < expires_at.
C4_AcceptedIffValid ==
    \A p \in Procs :
        (pc[p] = "done" /\ req[p].endpoint = "/register" /\ hist[p].consume /\ ~hist[p].failed) =>
            (resp[p].status = 201 <=> hist[p].validAtCheck)

\* C5: the used flag of an invitation row never goes back from true to
\* false, and no row disappears, whatever step is taken.
C5_UsedMonotonic ==
    [][\A i \in DOMAIN invitation_codes :
          invitation_codes[i].used =>
             (i \in DOMAIN invitation_codes' /\ invitation_codes'[i].used)]_vars

C5_Witness ==
    /\ \E i \in DOMAIN invitation_codes : invitation_codes[i].used
    /\ sweepPc = "sleep"
    /\ now > 0
    /\ \E p \in Procs : pc[p] = "done" /\ req[p].endpoint = "/register" /\ hist[p].afterAccept

\* the fill interval of the buckets RateLimitMiddleware creates
RefillInterval == NewBucketWithRate(BucketRate, BucketCapacity, 0).fillInterval

\* C6: per address, with capacity 1 and one token per second: at one instant
\* at most capacity requests pass; a request refused at the instant its bucket
\* was created was preceded by capacity admissions at that instant; a request
\* made a full fill interval or more after a refusal, with none in between,
\* passes; and a request made at the instant of an admission is refused.
C6_BurstAndRefill ==
    \A a \in Addrs :
        /\ burst[a].adm <= BucketCapacity
        /\ (ipLimiterMap[a] # 0 /\ buckets[ipLimiterMap[a]].startTime = now /\ burst[a].refused)
              => burst[a].adm = BucketCapacity
        /\ (takeLog[a][1].n = 0 /\ takeLog[a][2].n >= 0
               /\ takeLog[a][2].at >= takeLog[a][1].at + RefillInterval)
              => takeLog[a][2].n = TakeCount
        /\ (takeLog[a][1].n = TakeCount /\ takeLog[a][2].n >= 0
               /\ takeLog[a][2].at = takeLog[a][1].at)
              => takeLog[a][2].n = 0

\* admitted, refused, and admitted again a fill interval after the refusal
C6_Witness ==
    \E a \in Addrs :
        /\ takeLog[a][1].n = 0
        /\ takeLog[a][2].n = TakeCount
        /\ takeLog[a][2].at >= takeLog[a][1].at + RefillInterval
        /\ burst[a].all = 2

\* a burst: the second request of an instant is refused
C6_BurstWitness ==
    \E a \in Addrs :
        /\ takeLog[a][1] = [at |-> now, n |-> TakeCount]
        /\ takeLog[a][2] = [at |-> now, n |-> 0]
        /\ buckets[ipLimiterMap[a]].startTime = now

\* C7: every bucket ever allocated is the one the map holds for some
\* address (no address gets a second bucket), every request uses the bucket
\* of its address, and the admissions of an address never exceed the capacity
\* of its bucket plus the tokens refilled since the bucket was created.
C7_OneBucketNoOverAdmission ==
    /\ \A i \in DOMAIN buckets : \E a \in Addrs : ipLimiterMap[a] = i
    /\ \A p \in Procs :
          (pc[p] \in {"rl_unlock", "rl_take"}) => local[p].limiter = ipLimiterMap[req[p].addr]
    /\ \A a \in Addrs :
          IF ipLimiterMap[a] = 0 THEN burst[a].all = 0
          ELSE LET tb == buckets[ipLimiterMap[a]]
               IN burst[a].all <= tb.capacity
                                    + ((now - tb.startTime) \div tb.fillInterval) * tb.quantum

C7_Witness ==
    \E p, q \in Procs :
        /\ p # q /\ req[p].addr = req[q].addr /\ nreq = 2
        /\ pc[p] = "done" /\ resp[p].status = 429
        /\ pc[q] = "auth" /\ hist[q].rateChecked
        /\ Len(buckets) = 1

\* C8: the tokens available in a bucket are never fewer than 0 nor more
\* than its capacity.
C8_TokensWithinCapacity ==
    \A i \in DOMAIN buckets :
        buckets[i].availableTokens >= 0 /\ buckets[i].availableTokens <= buckets[i].capacity

\* an emptied bucket is used again after a pause in which more tokens than
\* its capacity would have been added: it holds capacity tokens, one is taken
C8_Witness ==
    \E a \in Addrs :
        /\ ipLimiterMap[a] # 0
        /\ takeLog[a][1].n = TakeCount /\ takeLog[a][2].n = TakeCount
        /\ takeLog[a][2].at >= takeLog[a][1].at + (BucketCapacity + 2) * RefillInterval
        /\ buckets[ipLimiterMap[a]].availableTokens = BucketCapacity - TakeCount
        /\ buckets[ipLimiterMap[a]].latestTick >= BucketCapacity + 2

\* the token a request carries after "Bearer "
Presented(p) == req[p].hdr.token
IssuedTokens == {i.token : i \in issued}
Gated(p) == req[p].endpoint \in {"/invite", "/register", "/login"}

\* C9: when AuthMiddleware decides on a request carrying a token that /token
\* handed out, it calls the wrapped handler if the token is presented at its
\* issue time, and answers 401 if the time is past the expiry the token carries.
C9_IssuedTokenLifetime ==
    [][\A p \in Procs :
          (pc[p] = "auth" /\ pc'[p] # "auth" /\ req[p].hdr = Bearer(Presented(p))
             /\ Presented(p) \in IssuedTokens)
          => /\ (\E i \in issued : i.token = Presented(p) /\ i.at = now)
                   => pc'[p] = WrappedHandler(req[p].endpoint)
             /\ Unix(now) > Presented(p).claims.expiry.v
                   => (pc'[p] = "done" /\ resp'[p].status = 401)]_vars

\* the headers C10 is about
SignatureVerifies(tok) == tok.kind = "jwt" /\ tok.sig = Sign(tok.alg, tok.claims, jwtKey)
\* the scheme word Bearer in any spelling (a scheme name has no letter case)
IsBearerScheme(w) ==
    /\ Len(w) = Len(bearerWord)
    /\ \A k \in DOMAIN w : w[k] \in {bearerWord[k], BEARERWord[k]}
BadHeader(h) ==
    \/ h.nparts = 0
    \/ h.nparts # 2
    \/ ~IsBearerScheme(h.scheme)
    \/ ~SignatureVerifies(h.token)
    \/ h.token.claims.expiry.t = "absent"
    \/ (h.token.claims.expiry.t = "number" /\ h.token.claims.expiry.v = 0)

\* C10 as stated: a request to a gated endpoint with such a header never
\* reaches the wrapped handler, is answered 401 whenever it is answered, and
\* none of its steps changes a row of users, invitation_codes or sessions.
C10_BadHeaderAlways401 ==
    /\ [](\A p \in Procs :
            (Gated(p) /\ BadHeader(req[p].hdr)) =>
               /\ ~hist[p].ran /\ ~hist[p].wrote
               /\ pc[p] = "done" => resp[p].status = 401)
    /\ [][\A p \in Procs :
            (Gated(p) /\ BadHeader(req[p].hdr) /\ pc'[p] # pc[p] /\ req'[p] = req[p])
               => dbVars' = dbVars]_vars

\* C10, amended: a request to a gated endpoint with such a header never
\* reaches the wrapped handler; it is answered 401 once AuthMiddleware has
\* seen it, and 429 when it is a /login request that RateLimitMiddleware
\* refused before AuthMiddleware saw it; none of its steps changes a row of
\* users, invitation_codes or sessions.
C10_BadHeaderRejected ==
    /\ [](\A p \in Procs :
            (Gated(p) /\ BadHeader(req[p].hdr)) =>
               /\ ~hist[p].ran /\ ~hist[p].wrote
               /\ pc[p] \in {"rl_lock", "rl_create", "rl_unlock", "rl_take", "auth", "done"}
               /\ (pc[p] = "done" /\ hist[p].tokenChecked) => resp[p].status = 401
               /\ (pc[p] = "done" /\ ~hist[p].tokenChecked) => resp[p].status = 429)
    /\ [][\A p \in Procs :
            (Gated(p) /\ BadHeader(req[p].hdr) /\ pc'[p] # pc[p] /\ req'[p] = req[p])
               => dbVars' = dbVars]_vars

C10_Witness ==
    \E p \in Procs :
        /\ pc[p] = "done" /\ req[p].endpoint = "/register"
        /\ req[p].hdr = [nparts |-> 2, scheme |-> TokenWord, token |-> ValidToken]
        /\ resp[p].status = 401
        /\ users # <<>> /\ ~hist[p].ran

\* positions inside the handlers AuthMiddleware wraps
WrappedPositions == {"invite", "reg_exists", "reg_used", "reg_valid", "reg_insert", "reg_mark",
                     "login_find", "login_id", "login_session"}
GateMessages == {"Rate limit exceeded", "Authorization header not found",
                 "Invalid token", "Expired token"}

\* C11: a /login request has its token looked at only after the rate limiter
\* admitted it; a /login request answered 429 never had its token looked at;
\* a wrapped handler is entered only by a request whose token AuthMiddleware
\* accepted (and, on /login, which the rate limiter admitted); a request
\* answered by one of the two checks never entered its wrapped handler; and a
\* /login request with a missing or invalid token that the limiter admits
\* takes one token out of the bucket of its address.
C11_GateOrder ==
    /\ [](\A p \in Procs :
            Gated(p) =>
               /\ (hist[p].tokenChecked /\ req[p].endpoint = "/login") => hist[p].rateChecked
               /\ (hist[p].rateChecked => req[p].endpoint = "/login")
               /\ (pc[p] = "done" /\ resp[p].status = 429) =>
                      (hist[p].rateChecked /\ ~hist[p].tokenChecked /\ ~hist[p].ran)
               /\ (pc[p] \in WrappedPositions \/ hist[p].ran) =>
                      /\ hist[p].tokenChecked
                      /\ ~BadHeader(req[p].hdr)
                      /\ req[p].endpoint = "/login" => hist[p].rateChecked
               /\ (pc[p] = "done" /\ resp[p].msg \in GateMessages) => ~hist[p].ran
               /\ (pc[p] = "done" /\ ~hist[p].ran) => resp[p].msg \in GateMessages)
    /\ [][\A p \in Procs :
            (req[p].endpoint = "/login" /\ BadHeader(req[p].hdr)
               /\ pc[p] = "rl_take" /\ pc'[p] = "auth")
            => LET b == ipLimiterMap[req[p].addr]
               IN buckets'[b].availableTokens =
                     AdjustAvailableTokens(buckets[b], CurrentTick(buckets[b], now)).availableTokens
                        - TakeCount]_vars

\* a /login request without a header: admitted by the limiter, which took the
\* token of the address, then answered 401 by AuthMiddleware
C11_Witness ==
    \E p \in Procs :
        /\ pc[p] = "done" /\ req[p].endpoint = "/login" /\ req[p].hdr = NoHeader
        /\ resp[p] = [status |-> 401, msg |-> "Authorization header not found"]
        /\ hist[p].rateChecked /\ hist[p].tokenChecked /\ ~hist[p].ran
        /\ takeLog[req[p].addr][2] = [at |-> now, n |-> TakeCount]
        /\ buckets[ipLimiterMap[req[p].addr]].availableTokens = 0

\* a /login request answered 429 before AuthMiddleware saw it
C11_ThrottledWitness ==
    \E p \in Procs :
        /\ pc[p] = "done" /\ req[p].endpoint = "/login" /\ resp[p].status = 429
        /\ ~hist[p].tokenChecked

\* the rows the resend query is meant to find at time t
Overdue(i, t) ==
    /\ i \in DOMAIN invitation_codes
    /\ ~invitation_codes[i].used
    /\ invitation_codes[i].expires_at # Null
    /\ invitation_codes[i].expires_at < t - GraceInterval

\* C12: while the server serves, the resend loop is started (its first query
\* is reached) unless the process ends, and every invitation that is unused
\* and overdue is in the end used, passed to ResendInvitation, or the process
\* has ended.
C12_SweeperRuns ==
    /\ [](mainPc = "serving" => <>(sweepPc # "off" \/ mainPc = "exited"))
    /\ \A i \in 1 .. MaxCodes :
          [](Overdue(i, now) =>
                <>(\/ (i \in DOMAIN invitation_codes /\ invitation_codes[i].used)
                   \/ \E k \in DOMAIN notified : notified[k].ID = i
                   \/ mainPc = "exited"))

\* the server serving with an overdue, unused invitation in the table
C12_Serving ==
    mainPc = "serving" /\ sweepPc = "off" /\ \E i \in 1 .. MaxCodes : Overdue(i, now)

\* a registration request whose queries were all answered
Consumed(p) ==
    /\ pc[p] = "done" /\ req[p].endpoint = "/register"
    /\ hist[p].consume /\ ~hist[p].failed

\* C13: of a registration request whose queries were all answered: with no
\* row for its (code, email) it is refused as "Invalid invitation code";
\* received after its (code, email) was accepted it is refused as "Used
\* invitation code" whatever the time; and it is refused as "Expired
\* invitation code" only if a row for its (code, email) exists that is unused
\* and past its expires_at (a row without expires_at is never valid).
C13_RejectionOrder ==
    \A p \in Procs :
        Consumed(p) =>
           /\ ~CodeExists(invitation_codes, req[p].code, req[p].email)
                 => resp[p].msg = "Invalid invitation code"
           /\ hist[p].afterAccept => resp[p].msg = "Used invitation code"
           /\ resp[p].msg = "Expired invitation code"
                 => \E i \in DOMAIN invitation_codes :
                       /\ invitation_codes[i].code = req[p].code
                       /\ invitation_codes[i].email = req[p].email
                       /\ ~invitation_codes[i].used
                       /\ (invitation_codes[i].expires_at = Null
                              \/ now >= invitation_codes[i].expires_at)

\* C14: a finished /register request one of whose queries, or whose hashing
\* or user insert, failed is answered 500 and wrote neither a user row nor a
\* used mark; a finished /login request one of whose lookups or whose
\* session insert failed is answered 401 or 500 and wrote no session row.
C14_FailClosed ==
    \A p \in Procs :
        (pc[p] = "done" /\ hist[p].failed) =>
           /\ (req[p].endpoint = "/register" /\ ~hist[p].insertedUser) =>
                  (resp[p].status = 500 /\ ~hist[p].markedUsed /\ ~hist[p].wrote)
           /\ req[p].endpoint = "/login" =>
                  (resp[p].status \in {401, 500} /\ ~hist[p].wrote)

\* C15: after a query of the resend loop failed, nobody is notified until a
\* query succeeded, the loop is still running, and the next query is made
\* only once the sleep interval has passed since the failed one.
C15_FailedQueryWaits ==
    /\ [](sweepLog.failedAt # Null => sweepPc \in {"continue", "query"})
    /\ [][notified' # notified => sweepLog'.failedAt = Null]_vars
    /\ [][(sweepPc = "query" /\ sweepPc' # "query" /\ sweepLog.failedAt # Null)
            => now >= sweepLog.failedAt + SweepInterval]_vars

\* the rows that are unused and past their expires_at at time t
ExpiredUnused(t) ==
    {i \in DOMAIN invitation_codes :
        /\ ~invitation_codes[i].used
        /\ invitation_codes[i].expires_at # Null
        /\ t >= invitation_codes[i].expires_at}

\* C16: a successful query of the resend loop selects exactly the rows that
\* are unused and expired at that time; within the iteration each selected row
\* is passed to ResendInvitation once, in order, and no other row is; and no
\* step of the loop changes a row of invitation_codes.
C16_SweepNotifiesExpired ==
    /\ [][(sweepPc = "query" /\ sweepPc' = "resend")
            => {x.ID : x \in Range(sweepLog'.selected)} = ExpiredUnused(now)]_vars
    /\ [](sweepPc = "resend" => notified \o expiredInvitations = sweepLog.selected)
    /\ [](sweepPc = "sleep" => notified = sweepLog.selected)
    /\ [][sweepVars' # sweepVars => invitation_codes' = invitation_codes]_vars

\* the credentials of a request match no row of users
UnknownAccount(r) == UsersByEmail(users, r.email) = {}
WrongPassword(r) ==
    /\ UsersByEmail(users, r.email) # {}
    /\ \A i \in UsersByEmail(users, r.email) :
          ~CompareHashAndPassword(users[i].password_hash, r.password)

\* C17: a POST /login request that reached LoginHandler (admitted by the rate
\* limiter, with a valid token), whose lookups were answered, and whose
\* account is unknown or whose password is wrong, is answered 401 and wrote
\* no session row: the two cases get the same status.
C17_UniformCredentialFailure ==
    \A p \in Procs :
        (pc[p] = "done" /\ req[p].endpoint = "/login" /\ req[p].method = "POST"
           /\ hist[p].ran /\ ~hist[p].failed
           /\ (UnknownAccount(req[p]) \/ WrongPassword(req[p])))
        => (resp[p].status = 401 /\ ~hist[p].wrote)

\* C18: the step of /invite that answers with a code appends one row, bound
\* to the email of the request, unused, with a code no earlier row carries
\* and with expires_at one validity window after the time of the step; every
\* row has an expires_at, codes are pairwise different, and code, email and
\* expires_at of a row never change.
C18_IssuedRecord ==
    /\ [][\A p \in Procs :
            (pc[p] = "invite" /\ pc'[p] = "done" /\ resp'[p].status = 200) =>
               /\ Len(invitation_codes') = Len(invitation_codes) + 1
               /\ LET row == invitation_codes'[Len(invitation_codes')]
                  IN /\ row.email = req[p].email
                     /\ ~row.used
                     /\ row.expires_at = now + ValidityWindow
                     /\ \A i \in DOMAIN invitation_codes : invitation_codes[i].code # row.code]_vars
    /\ [](\A i, j \in DOMAIN invitation_codes :
            /\ invitation_codes[i].expires_at # Null
            /\ i # j => invitation_codes[i].code # invitation_codes[j].code)
    /\ [][\A i \in DOMAIN invitation_codes :
            /\ i \in DOMAIN invitation_codes'
            /\ invitation_codes'[i].code = invitation_codes[i].code
            /\ invitation_codes'[i].email = invitation_codes[i].email
            /\ invitation_codes'[i].expires_at = invitation_codes[i].expires_at]_vars

\* C19: a /register request answered 405 or 400 inserted no user row and
\* set no used flag, and none of its steps up to the answer changes a row of
\* users, invitation_codes or sessions.
C19_RejectedChangesNothing ==
    /\ [](\A p \in Procs :
            (pc[p] = "done" /\ req[p].endpoint = "/register" /\ resp[p].status \in {400, 405})
               => (~hist[p].insertedUser /\ ~hist[p].markedUsed /\ ~hist[p].wrote))
    /\ [][\A p \in Procs :
            (req[p].endpoint = "/register" /\ pc[p] \in {"auth", "reg_exists", "reg_used", "reg_valid"}
               /\ pc'[p] # pc[p])
            => dbVars' = dbVars]_vars

\* the four rejections: wrong method, no row, used row, expired row
C19_Witness ==
    \E p \in Procs :
        /\ pc[p] = "done" /\ req[p].endpoint = "/register"
        /\ resp[p] = [status |-> 400, msg |-> "Expired invitation code"]
        /\ \E i \in DOMAIN invitation_codes :
              /\ invitation_codes[i].code = req[p].code
              /\ invitation_codes[i].email = req[p].email
              /\ ~invitation_codes[i].used
              /\ invitation_codes[i].expires_at # Null
              /\ now >= invitation_codes[i].expires_at + GraceInterval
        /\ users = <<>>

\* the rows the resend query returns at time t
SelectableIDs(t) == {x.ID : x \in Range(SelectExpired(invitation_codes, t, 1))}

\* C20: at no time is an unused row both returned by the resend query and
\* passing the validity query of RegisterHandler; and a registration request
\* received after a sweep selected the row of its code is never answered 201
\* (requests are served one at a time: the one in service is number nreq).
C20_SweptNeverAccepted ==
    /\ \A i \in DOMAIN invitation_codes :
          ~invitation_codes[i].used =>
             ~(/\ i \in SelectableIDs(now)
               /\ IsValidCode(invitation_codes, invitation_codes[i].code,
                              invitation_codes[i].email, now))
    /\ \A p \in Procs :
          Accepted(p) =>
             ~\E z \in sweepLog.swept :
                 /\ invitation_codes[z.ID].code = req[p].code
                 /\ z.n < nreq

\* an invitation selected by a sweep, then refused as expired to a
\* registration request received afterwards
C20_Witness ==
    \E p \in Procs :
        /\ pc[p] = "done" /\ req[p].endpoint = "/register"
        /\ resp[p] = [status |-> 400, msg |-> "Expired invitation code"]
        /\ \E z \in sweepLog.swept :
              /\ invitation_codes[z.ID].code = req[p].code
              /\ invitation_codes[z.ID].email = req[p].email
              /\ z.n < nreq
              /\ \E k \in DOMAIN notified : notified[k].ID = z.ID

====
